---- MODULE Spec2Model ----
(***************************************************************************)
(* Node agent of sfkt-node (src/node_agent.py): the Xray configuration     *)
(* store (XrayConfigManager), the user reconciliation, the SNI sync and    *)
(* the batched reload of the proxy, as asyncio tasks of one event loop.    *)
(***************************************************************************)
EXTENDS Integers, Sequences, FiniteSets, TLC

(* ------------------------------ bounds -------------------------------- *)
\* identity tokens (user UUIDs) are 1..MaxUsers; 0 stands for a client
\* entry that has no "id" key
MaxUsers == 2
\* wake-ups of the periodic tasks explored in one run
MaxCycles == 3
\* failures of file writes and HTTP requests injected in one run
MaxFaults == 1

UUIDs == 1..MaxUsers
NoId == 0
NoneStr == "None"
Vision == "xtls-rprx-vision"
OtherFlow == "xtls-rprx-direct"
INBOUND_TAG == "vless-in"
ApiTag == "api"
SNIs == {"vk.com", "ya.ru"}
NodeIds == {"n1"}

(* --------------------------- the document ----------------------------- *)
\* a client entry of an inbound: the keys the agent reads or writes
Client(id, flow) == [id |-> id, email |-> id, flow |-> flow]

\* an inbound: the keys the agent reads or writes, the presence of the
\* "settings" and "clients" keys, and `rest` for every other key
Inbound(tag, protocol, hasSettings, hasClients, clients, serverNames) ==
  [tag |-> tag, protocol |-> protocol, hasSettings |-> hasSettings,
   hasClients |-> hasClients, clients |-> clients,
   serverNames |-> serverNames, rest |-> "port-and-other-keys"]

\* the file: readable JSON holding `inbounds`, or unreadable / malformed
File(inbounds) == [readable |-> TRUE, inbounds |-> inbounds]
Unreadable == [readable |-> FALSE, inbounds |-> << >>]

ApiInbound == Inbound(ApiTag, "dokodemo-door", TRUE, FALSE, << >>, << >>)

RECURSIVE SeqOfSet(_, _)
\* the clients of an initial document: the identities of S in ascending
\* order, all with the same flow value
SeqOfSet(S, flow) ==
  IF S = {} THEN << >>
  ELSE LET m == CHOOSE x \in S : \A y \in S : x <= y
       IN  << Client(m, flow) >> \o SeqOfSet(S \ {m}, flow)

\* the documents the agent may find at start: the target inbound with no,
\* one or every identity; with clients that lack the flow; no target
\* inbound; a target inbound without "settings" or without "clients"; a
\* client without id beside one with another flow
InitDocs ==
  { File(<< ApiInbound,
            Inbound(INBOUND_TAG, "vless", TRUE, TRUE, SeqOfSet(S, Vision), << "vk.com" >>) >>) :
      S \in {{}, {1}, UUIDs} }
  \cup { File(<< ApiInbound,
                 Inbound(INBOUND_TAG, "vless", TRUE, TRUE, SeqOfSet(UUIDs, NoneStr), << "vk.com" >>) >>),
         File(<< ApiInbound >>),
         File(<< ApiInbound, Inbound(INBOUND_TAG, "vless", FALSE, FALSE, << >>, << >>) >>),
         File(<< ApiInbound, Inbound(INBOUND_TAG, "vless", TRUE, FALSE, << >>, << "vk.com" >>) >>),
         File(<< ApiInbound,
                 Inbound(INBOUND_TAG, "vless", TRUE, TRUE,
                         << Client(NoId, Vision), Client(1, OtherFlow) >>, << >>) >>) }

(* ------------------------ XrayConfigManager --------------------------- *)
\* faulty variant: a file that cannot be read is taken for a document with
\* an empty target inbound
read_config_default(d) ==
  IF d.readable THEN [inbounds |-> d.inbounds]
  ELSE [inbounds |-> << Inbound(INBOUND_TAG, "vless", TRUE, TRUE, << >>, << >>) >>]

\* read_config: the parsed document, or {} when the file cannot be read
read_config(d) == IF d.readable THEN [inbounds |-> d.inbounds] ELSE [inbounds |-> << >>]

WriteOutcomes == {"ok", "denied", "truncated"}
\* write_config: open(path, 'w') then json.dump. The file after the call:
\* the new document; the old one when open() raised; an unparsable file
\* when the write raised after open() had truncated it
write_config(d, config, outcome) ==
  CASE outcome = "ok" -> File(config.inbounds)
    [] outcome = "denied" -> d
    [] OTHER -> Unreadable

\* faulty variant: a lookup that falls back to the first inbound
FindInboundOrFirst(inbounds, tag) ==
  IF \E i \in 1..Len(inbounds) : inbounds[i].tag = tag
  THEN CHOOSE i \in 1..Len(inbounds) :
         /\ inbounds[i].tag = tag
         /\ \A j \in 1..(i-1) : inbounds[j].tag # tag
  ELSE IF Len(inbounds) > 0 THEN 1 ELSE 0

\* index of the first inbound carrying `tag`, 0 when there is none
FindInbound(inbounds, tag) ==
  IF \E i \in 1..Len(inbounds) : inbounds[i].tag = tag
  THEN CHOOSE i \in 1..Len(inbounds) :
         /\ inbounds[i].tag = tag
         /\ \A j \in 1..(i-1) : inbounds[j].tag # tag
  ELSE 0

\* inbound.get('settings', {}).get('clients', [])
ClientsOf(inbound) ==
  IF inbound.hasSettings /\ inbound.hasClients THEN inbound.clients ELSE << >>

\* the ids of a client list that are truthy
IdsOf(clients) == { clients[i].id : i \in 1..Len(clients) } \ {NoId}

get_inbound_users(config, tag) ==
  LET i == FindInbound(config.inbounds, tag)
  IN  IF i = 0 THEN {} ELSE IdsOf(ClientsOf(config.inbounds[i]))

\* what a store call returns: the file and the flag after it, the value
\* returned, and whether write_config was called
Result(d, flag, ret, wrote) == [doc |-> d, flag |-> flag, ret |-> ret, wrote |-> wrote]

\* faulty variant: add_user without its "already exists" check
add_user_lose_check(d, flag, config, tag, uuid, outcome) ==
  LET i == FindInbound(config.inbounds, tag)
  IN  IF i = 0 THEN Result(d, flag, FALSE, FALSE)
      ELSE LET inb == config.inbounds[i]
               new == [inb EXCEPT !.hasSettings = TRUE, !.hasClients = TRUE,
                         !.clients = Append(ClientsOf(inb), Client(uuid, Vision))]
               cfg2 == [config EXCEPT !.inbounds[i] = new]
           IN  Result(write_config(d, cfg2, outcome),
                      IF outcome = "ok" THEN TRUE ELSE flag, outcome = "ok", TRUE)

\* add_user, from the config it has read
add_user(d, flag, config, tag, uuid, outcome) ==
  LET i == FindInbound(config.inbounds, tag)
  IN  IF i = 0 THEN Result(d, flag, FALSE, FALSE)
      ELSE LET inb == config.inbounds[i]
               clients == ClientsOf(inb)
           IN  IF \E k \in 1..Len(clients) : clients[k].id = uuid
               THEN Result(d, flag, TRUE, FALSE)
               ELSE LET new == [inb EXCEPT !.hasSettings = TRUE, !.hasClients = TRUE,
                                  !.clients = Append(clients, Client(uuid, Vision))]
                        cfg2 == [config EXCEPT !.inbounds[i] = new]
                    IN  Result(write_config(d, cfg2, outcome),
                               IF outcome = "ok" THEN TRUE ELSE flag,
                               outcome = "ok", TRUE)

\* the client list without the entries whose id is uuid
RECURSIVE Without(_, _)
Without(clients, uuid) ==
  IF clients = << >> THEN << >>
  ELSE IF Head(clients).id = uuid THEN Without(Tail(clients), uuid)
       ELSE << Head(clients) >> \o Without(Tail(clients), uuid)

\* faulty variant: remove_user that reports success and removes nothing
remove_user_keeps(d, flag, config, tag, uuid, outcome) ==
  LET i == FindInbound(config.inbounds, tag)
  IN  IF i = 0 THEN Result(d, flag, FALSE, FALSE)
      ELSE Result(d, flag, TRUE, FALSE)

\* remove_user, from the config it has read
remove_user(d, flag, config, tag, uuid, outcome) ==
  LET i == FindInbound(config.inbounds, tag)
  IN  IF i = 0 THEN Result(d, flag, FALSE, FALSE)
      ELSE LET inb == config.inbounds[i]
               clients == ClientsOf(inb)
               kept == Without(clients, uuid)
           IN  IF ~inb.hasSettings
               THEN Result(d, flag, FALSE, FALSE)  \* inbound['settings'] raises KeyError
               ELSE IF Len(kept) < Len(clients)
                    THEN LET new == [inb EXCEPT !.hasClients = TRUE, !.clients = kept]
                             cfg2 == [config EXCEPT !.inbounds[i] = new]
                         IN  Result(write_config(d, cfg2, outcome),
                                    IF outcome = "ok" THEN TRUE ELSE flag,
                                    outcome = "ok", TRUE)
                    ELSE Result(d, flag, TRUE, FALSE)

\* every client of the list with its flow set to xtls-rprx-vision
FixFlows(clients) ==
  [k \in 1..Len(clients) |-> [clients[k] EXCEPT !.flow = Vision]]

\* an inbound as validate_and_fix_config leaves it in memory
FixInbound(inb) ==
  IF inb.protocol = "vless" /\ inb.hasSettings /\ inb.hasClients
  THEN [inb EXCEPT !.clients = FixFlows(inb.clients)]
  ELSE inb

\* validate_and_fix_config, from the config it has read: the flag is not
\* touched; it returns True when it has fixed and written the document
validate_and_fix_config(d, flag, config, outcome) ==
  LET fixed == [k \in 1..Len(config.inbounds) |-> FixInbound(config.inbounds[k])]
  IN  IF fixed # config.inbounds
      THEN Result(write_config(d, [config EXCEPT !.inbounds = fixed], outcome),
                  flag, outcome = "ok", TRUE)
      ELSE Result(d, flag, FALSE, FALSE)

\* the first server name of an inbound, "None" when there is none
CurrentSni(inb) == IF Len(inb.serverNames) > 0 THEN inb.serverNames[1] ELSE NoneStr

\* faulty variant: update_sni without its "already set" test
update_sni_always_writes(d, flag, config, new_sni, tag, outcome) ==
  LET i == FindInbound(config.inbounds, tag)
  IN  IF i = 0 THEN Result(d, flag, FALSE, FALSE)
      ELSE LET cfg2 == [config EXCEPT !.inbounds[i].serverNames = << new_sni >>]
           IN  Result(write_config(d, cfg2, outcome),
                      IF outcome = "ok" THEN TRUE ELSE flag, outcome = "ok", TRUE)

\* update_sni, from the config it has read
update_sni(d, flag, config, new_sni, tag, outcome) ==
  LET i == FindInbound(config.inbounds, tag)
  IN  IF i = 0 THEN Result(d, flag, FALSE, FALSE)
      ELSE IF CurrentSni(config.inbounds[i]) = new_sni
           THEN Result(d, flag, TRUE, FALSE)
           ELSE LET cfg2 == [config EXCEPT !.inbounds[i].serverNames = << new_sni >>]
                IN  Result(write_config(d, cfg2, outcome),
                           IF outcome = "ok" THEN TRUE ELSE flag, outcome = "ok", TRUE)

(* ------------------------------ state --------------------------------- *)
VARIABLES
  doc,                  \* the persisted configuration file
  config_needs_reload,  \* XrayConfigManager.config_needs_reload
  loaded,               \* the document the live proxy process loaded last
  node_id,              \* NodeAgent.node_id
  phase,                \* where NodeAgent.start is
  pc,                   \* where each periodic task is
  cur,                  \* the task that holds the event loop, or "idle"
  cfg,                  \* per task: the config returned by its last read_config
  server_uuids, current_uuids, users_to_add, users_to_remove,
  added_count, removed_count, uuid,   \* locals of sync_users
  server_sni,           \* local of sync_sni
  returncode,           \* exit status of the last restart process of this iteration
  cycles, faults,       \* wake-ups and injected failures so far
  rmw,                  \* per task: no read open, a fresh read, or a stale one
  addedOK, removedOK,   \* identities whose add / remove call returned True in this pass
  spawned, okRestarts, reloadCalls,   \* of the reload_xray call in progress: restart
                        \* processes spawned, those that exited 0, calls made
  muts, batched,        \* mutations since the last tick; those the call in progress batches
  retries,              \* reload_xray calls that returned False in a row
  last,                 \* the last store call
  stats,                \* sync_traffic: the raw records still to parse
  queried,              \* sync_traffic: the raw records query_stats returned
  user_traffic,         \* sync_traffic: the per-identity map being built
  payload,              \* the user_traffic of the last POST to the main server
  status,               \* how that POST was answered: resp.status, or "error"
  raised, completed     \* per task: cycles that raised, cycles that returned

vars == << doc, config_needs_reload, loaded, node_id, phase, pc, cur, cfg,
           server_uuids, current_uuids, users_to_add, users_to_remove,
           added_count, removed_count, uuid, server_sni, returncode,
           cycles, faults, rmw, addedOK, removedOK, spawned, okRestarts,
           reloadCalls, muts, batched, retries, last,
           stats, queried, user_traffic, payload, status, raised, completed >>

trafficVars == << stats, queried, user_traffic, payload, status >>
loopVars == << raised, completed >>
\* the five periodic tasks NodeAgent.start creates
LoopTasks == {"traffic", "health", "users", "sni", "reload"}

Tasks == {"users", "sni", "reload"}
Tags == {INBOUND_TAG, "no-such-tag"}

\* the identities of the target inbound as the file holds them
Observed(d) == get_inbound_users(read_config(d), INBOUND_TAG)

TagPresent(d, tag) ==
  \E i \in 1..Len(read_config(d).inbounds) : read_config(d).inbounds[i].tag = tag

NoCall == [op |-> "none", tag |-> NoneStr, arg |-> NoneStr, ret |-> FALSE,
           wrote |-> FALSE, changed |-> FALSE, tagPresent |-> FALSE,
           hadSettings |-> FALSE, argPresent |-> FALSE, flagBefore |-> FALSE,
           flagAfter |-> FALSE, idsBefore |-> {}, idsAfter |-> {}]

\* the record of a store call: what it was given, what it found in the file
\* before it ran, and what it left
Call(op, tag, arg, argPresent, d, flag, res) ==
  [op |-> op, tag |-> tag, arg |-> arg, ret |-> res.ret, wrote |-> res.wrote,
   changed |-> (res.doc # d), tagPresent |-> TagPresent(d, tag),
   hadSettings |-> (TagPresent(d, tag) /\
                    read_config(d).inbounds[FindInbound(read_config(d).inbounds, tag)].hasSettings),
   argPresent |-> argPresent, flagBefore |-> flag, flagAfter |-> res.flag,
   idsBefore |-> get_inbound_users(read_config(d), tag),
   idsAfter |-> get_inbound_users(read_config(res.doc), tag)]

\* nothing has run yet: no local is set, no call was made, nothing was sent
InitLocals ==
  /\ config_needs_reload = FALSE
  /\ cur = "idle"
  /\ stats = << >> /\ queried = << >> /\ user_traffic = << >> /\ payload = << >>
  /\ status = NoneStr
  /\ raised = [t \in LoopTasks |-> 0] /\ completed = [t \in LoopTasks |-> 0]
  /\ cfg = [t \in Tasks |-> [inbounds |-> << >>]]
  /\ server_uuids = {} /\ current_uuids = {}
  /\ users_to_add = {} /\ users_to_remove = {}
  /\ added_count = 0 /\ removed_count = 0 /\ uuid = NoId
  /\ server_sni = NoneStr
  /\ returncode = NoneStr
  /\ cycles = 0 /\ faults = 0
  /\ rmw = [t \in Tasks |-> "none"]
  /\ addedOK = {} /\ removedOK = {}
  /\ spawned = 0 /\ okRestarts = 0 /\ reloadCalls = 0
  /\ muts = 0 /\ batched = 0
  /\ retries = 0
  /\ last = NoCall

InitCommon ==
  /\ doc \in InitDocs
  /\ loaded = doc
  /\ node_id \in NodeIds \cup {NoneStr}
  /\ phase = "validate"
  /\ pc = [t \in Tasks |-> "sleep"]
  /\ InitLocals

\* faulty variant: the flag is cleared whatever the exit status
ClearsFlagAlways(flag, rc) == FALSE

\* reload_xray after the restart process has exited: the flag it leaves
FlagAfterRestart(flag, rc) == IF rc = "0" THEN FALSE ELSE flag

\* faulty variant: the direct systemctl is run after every nsenter exit
FallbackAlways(rc) == TRUE

\* reload_xray tries the direct systemctl only when nsenter exited non-zero
NeedsFallback(rc) == rc # "0"

\* faulty variant: a loop that restarts the proxy at every tick
ReloadEveryTick(flag) == TRUE

\* faulty variant: a loop that gives up after the first failed reload
ReloadUnlessFailedBefore(flag) == flag /\ retries = 0

\* reload_xray_loop calls reload_xray only when the flag is set
ShouldReload(flag) == flag

(* ---------- the store under arbitrary sequential calls ---------------- *)
agentVars == << loaded, node_id, phase, pc, cur, cfg, server_uuids, current_uuids,
                users_to_add, users_to_remove, added_count, removed_count, uuid,
                server_sni, returncode, cycles, faults, rmw, addedOK, removedOK,
                spawned, okRestarts, reloadCalls, muts, batched, retries,
                  trafficVars, loopVars >>

\* a call returns: the file, the flag and the call record change; the
\* outcome of a write is drawn only for a call that writes
Returns(call, res, outcome) ==
  /\ res.wrote \/ outcome = "ok"
  /\ doc' = res.doc
  /\ config_needs_reload' = res.flag
  /\ last' = call

StoreAddUser(tag, u, outcome) ==
  LET config == read_config(doc)
      res == add_user(doc, config_needs_reload, config, tag, u, outcome)
  IN  /\ Returns(Call("add_user", tag, u, u \in get_inbound_users(config, tag),
                      doc, config_needs_reload, res), res, outcome)
      /\ UNCHANGED agentVars

StoreRemoveUser(tag, u, outcome) ==
  LET config == read_config(doc)
      res == remove_user(doc, config_needs_reload, config, tag, u, outcome)
  IN  /\ Returns(Call("remove_user", tag, u, u \in get_inbound_users(config, tag),
                      doc, config_needs_reload, res), res, outcome)
      /\ UNCHANGED agentVars

StoreUpdateSni(tag, sni, outcome) ==
  LET config == read_config(doc)
      i == FindInbound(config.inbounds, tag)
      res == update_sni(doc, config_needs_reload, config, sni, tag, outcome)
  IN  /\ Returns(Call("update_sni", tag, sni,
                      i # 0 /\ CurrentSni(config.inbounds[i]) = sni,
                      doc, config_needs_reload, res), res, outcome)
      /\ UNCHANGED agentVars

StoreValidate(outcome) ==
  LET config == read_config(doc)
      res == validate_and_fix_config(doc, config_needs_reload, config, outcome)
  IN  /\ Returns(Call("validate_and_fix_config", INBOUND_TAG, NoneStr, FALSE,
                      doc, config_needs_reload, res), res, outcome)
      /\ UNCHANGED agentVars

\* reload_xray as one call: the restart process exits with status rc
StoreReload(rc) ==
  /\ config_needs_reload' = FlagAfterRestart(config_needs_reload, rc)
  /\ loaded' = IF rc = "0" THEN doc ELSE loaded
  /\ last' = [NoCall EXCEPT !.op = "reload_xray", !.ret = (rc = "0"),
                            !.flagBefore = config_needs_reload,
                            !.flagAfter = FlagAfterRestart(config_needs_reload, rc)]
  /\ UNCHANGED << doc, node_id, phase, pc, cur, cfg, server_uuids, current_uuids,
                  users_to_add, users_to_remove, added_count, removed_count, uuid,
                  server_sni, returncode, cycles, faults, rmw, addedOK, removedOK,
                  spawned, okRestarts, reloadCalls, muts, batched, retries,
                  trafficVars, loopVars >>

StoreNext ==
  \/ \E tag \in Tags, u \in UUIDs, o \in WriteOutcomes : StoreAddUser(tag, u, o)
  \/ \E tag \in Tags, u \in UUIDs, o \in WriteOutcomes : StoreRemoveUser(tag, u, o)
  \/ \E tag \in Tags, sni \in SNIs, o \in WriteOutcomes : StoreUpdateSni(tag, sni, o)
  \/ \E o \in WriteOutcomes : StoreValidate(o)
  \/ \E rc \in {"0", "1"} : StoreReload(rc)

\* the documents the store is exercised on: those of InitDocs and one with a
\* second vless inbound whose clients lack the flow
StoreDocs ==
  InitDocs \cup
  { File(<< ApiInbound,
            Inbound(INBOUND_TAG, "vless", TRUE, TRUE, SeqOfSet({1}, Vision), << "vk.com" >>),
            Inbound("vless-alt", "vless", TRUE, TRUE, SeqOfSet({2}, NoneStr), << >>) >>) }

\* the store is exercised on its own: no agent has registered
StoreInit ==
  /\ doc \in StoreDocs
  /\ loaded = doc
  /\ node_id = NoneStr
  /\ phase = "validate"
  /\ pc = [t \in Tasks |-> "sleep"]
  /\ InitLocals

StoreSpec == StoreInit /\ [][StoreNext]_vars

(* --------------------------- the agent -------------------------------- *)
\* faulty variant: file I/O that yields to the event loop as well
SuspendsAlways(op) == TRUE

\* whether awaiting `op` gives the event loop to another task: read_config
\* and write_config hold no await (blocking file I/O); HTTP requests,
\* process waits and sleeps do
Suspends(op) == op \in {"http", "process", "sleep"}

\* faulty variant: the tasks created before register_node is awaited
RunnableBeforeRegistration(t) ==
  phase \in {"registering", "running"} /\ cur \in {t, "idle"}

\* task t may run: it holds the loop, or nobody does and it is resumed.
\* NodeAgent.start creates the tasks after it has awaited register_node
Runnable(t) == phase = "running" /\ cur \in {t, "idle"}

\* faulty variant: a cycle that does not test the node id
NoNodeIdTest(id, first) == first

\* `if not self.node_id: return` at the head of sync_traffic, sync_users and
\* sync_sni: without an id the cycle is over, else it takes its first step
AfterNodeIdTest(id, first) == IF id = NoneStr THEN "sleep" ELSE first

\* the loop's holder after t has awaited `op`
After(t, op) == IF Suspends(op) THEN "idle" ELSE t

Bump(n) == IF n < 2 THEN n + 1 ELSE n

\* a failure outcome is injected only while the budget lasts
MayFail(failed) == ~failed \/ faults < MaxFaults
Fault(failed) == faults' = IF failed THEN faults + 1 ELSE faults

\* the effect of a store call made by task t from the config it read
StoreCall(t, res) ==
  /\ doc' = res.doc
  /\ config_needs_reload' = res.flag
  /\ UNCHANGED << last, trafficVars, loopVars >>
  /\ muts' = IF res.doc # doc THEN Bump(muts) ELSE muts
  /\ rmw' = [x \in Tasks |->
               IF x = t THEN "none"
               ELSE IF res.wrote /\ rmw[x] = "fresh" THEN "stale" ELSE rmw[x]]
  /\ MayFail(res.wrote /\ ~res.ret)
  /\ Fault(res.wrote /\ ~res.ret)

usersLocals == << server_uuids, current_uuids, users_to_add, users_to_remove,
                  added_count, removed_count, uuid, addedOK, removedOK >>
reloadLocals == << returncode, spawned, okRestarts, reloadCalls, batched, retries >>

\* NodeAgent.start: validate_and_fix_config before anything else
StartValidate(outcome) ==
  /\ phase = "validate"
  /\ LET res == validate_and_fix_config(doc, config_needs_reload, read_config(doc), outcome)
     IN  /\ res.wrote \/ outcome = "ok"
         /\ StoreCall("main", res)
  /\ phase' = IF node_id = NoneStr THEN "register" ELSE "running"
  /\ UNCHANGED << loaded, node_id, pc, cur, cfg, server_sni, cycles >>
  /\ UNCHANGED usersLocals /\ UNCHANGED reloadLocals

\* NodeAgent.register_node: the id of a 200 answer, else node_id stays unset
StartRegister(ok) ==
  /\ phase = "register"
  /\ MayFail(~ok) /\ Fault(~ok)
  /\ node_id' \in IF ok THEN NodeIds ELSE {NoneStr}
  /\ phase' = "running"
  /\ UNCHANGED << doc, config_needs_reload, loaded, pc, cur, cfg, server_sni, cycles,
                  rmw, muts, last,
                  trafficVars, loopVars >>
  /\ UNCHANGED usersLocals /\ UNCHANGED reloadLocals

\* sync_users_loop wakes: sync_users returns at once without a node id,
\* else it sends the GET of the desired users
UsersWake ==
  /\ Runnable("users") /\ pc["users"] = "sleep" /\ cycles < MaxCycles
  /\ cycles' = cycles + 1
  /\ pc' = [pc EXCEPT !["users"] = AfterNodeIdTest(node_id, "get")]
  /\ cur' = "idle"
  /\ UNCHANGED << doc, config_needs_reload, loaded, node_id, phase, cfg, server_sni,
                  faults, rmw, muts, last,
                  trafficVars, loopVars >>
  /\ UNCHANGED usersLocals /\ UNCHANGED reloadLocals

\* faulty variant: the status test without its return, the cycle goes on
ProceedsOnNon200(t) == IF t = "users" THEN "loop" ELSE "upd_w"

\* if resp.status != 200: log and return; the loop of task t sleeps
OnNon200(t) == "sleep"

\* the GET failed or was not answered 200: the cycle ends
UsersRespFail ==
  /\ Runnable("users") /\ pc["users"] = "get"
  /\ MayFail(TRUE) /\ Fault(TRUE)
  /\ pc' = [pc EXCEPT !["users"] = OnNon200("users")]
  /\ cur' = "idle"
  /\ UNCHANGED << doc, config_needs_reload, loaded, node_id, phase, cfg, server_sni,
                  cycles, rmw, muts, last,
                  trafficVars, loopVars >>
  /\ UNCHANGED usersLocals /\ UNCHANGED reloadLocals

\* the GET was answered 200 with the desired set D: sync_users builds
\* server_uuids, reads current_uuids and computes both differences
UsersResp(D) ==
  /\ Runnable("users") /\ pc["users"] = "get"
  /\ server_uuids' = D
  /\ current_uuids' = get_inbound_users(read_config(doc), INBOUND_TAG)
  /\ users_to_add' = D \ current_uuids'
  /\ users_to_remove' = current_uuids' \ D
  /\ added_count' = 0 /\ removed_count' = 0
  /\ addedOK' = {} /\ removedOK' = {}
  /\ pc' = [pc EXCEPT !["users"] = "loop"]
  /\ cur' = After("users", "read_config")
  /\ UNCHANGED << doc, config_needs_reload, loaded, node_id, phase, cfg, uuid, server_sni,
                  cycles, faults, rmw, muts, last,
                  trafficVars, loopVars >>
  /\ UNCHANGED reloadLocals

\* add_user reads the config for the next identity of users_to_add
UsersAddRead(u) ==
  /\ Runnable("users") /\ pc["users"] = "loop" /\ u \in users_to_add
  /\ uuid' = u
  /\ cfg' = [cfg EXCEPT !["users"] = read_config(doc)]
  /\ rmw' = [rmw EXCEPT !["users"] = "fresh"]
  /\ pc' = [pc EXCEPT !["users"] = "add_w"]
  /\ cur' = After("users", "read_config")
  /\ UNCHANGED << doc, config_needs_reload, loaded, node_id, phase, server_uuids,
                  current_uuids, users_to_add, users_to_remove, added_count,
                  removed_count, addedOK, removedOK, server_sni, cycles, faults,
                  muts, last,
                  trafficVars, loopVars >>
  /\ UNCHANGED reloadLocals

\* faulty variant: a failed call ends the loop over the identities
DropAllOnFailure(pending, u, ret) == IF ret THEN pending \ {u} ELSE {}

\* for uuid in users_to_add / users_to_remove: the call returned ret and
\* the for loop goes on with the identities that are left
RemainingAfter(pending, u, ret) == pending \ {u}

\* add_user edits what it read, writes it and returns
UsersAddWrite(outcome) ==
  /\ Runnable("users") /\ pc["users"] = "add_w"
  /\ LET res == add_user(doc, config_needs_reload, cfg["users"], INBOUND_TAG, uuid, outcome)
     IN  /\ res.wrote \/ outcome = "ok"
         /\ StoreCall("users", res)
         /\ added_count' = IF res.ret THEN added_count + 1 ELSE added_count
         /\ addedOK' = IF res.ret THEN addedOK \cup {uuid} ELSE addedOK
         /\ users_to_add' = RemainingAfter(users_to_add, uuid, res.ret)
  /\ uuid' = NoId
  /\ cfg' = [cfg EXCEPT !["users"] = [inbounds |-> << >>]]
  /\ pc' = [pc EXCEPT !["users"] = "loop"]
  /\ cur' = After("users", "write_config")
  /\ UNCHANGED << loaded, node_id, phase, server_uuids, current_uuids,
                  users_to_remove, removed_count, removedOK, server_sni, cycles >>
  /\ UNCHANGED reloadLocals

\* remove_user reads the config for the next identity of users_to_remove
UsersRemoveRead(u) ==
  /\ Runnable("users") /\ pc["users"] = "loop"
  /\ users_to_add = {} /\ u \in users_to_remove
  /\ uuid' = u
  /\ cfg' = [cfg EXCEPT !["users"] = read_config(doc)]
  /\ rmw' = [rmw EXCEPT !["users"] = "fresh"]
  /\ pc' = [pc EXCEPT !["users"] = "rem_w"]
  /\ cur' = After("users", "read_config")
  /\ UNCHANGED << doc, config_needs_reload, loaded, node_id, phase, server_uuids,
                  current_uuids, users_to_add, users_to_remove, added_count,
                  removed_count, addedOK, removedOK, server_sni, cycles, faults,
                  muts, last,
                  trafficVars, loopVars >>
  /\ UNCHANGED reloadLocals

\* remove_user edits what it read, writes it and returns
UsersRemoveWrite(outcome) ==
  /\ Runnable("users") /\ pc["users"] = "rem_w"
  /\ LET res == remove_user(doc, config_needs_reload, cfg["users"], INBOUND_TAG, uuid, outcome)
     IN  /\ res.wrote \/ outcome = "ok"
         /\ StoreCall("users", res)
         /\ removed_count' = IF res.ret THEN removed_count + 1 ELSE removed_count
         /\ removedOK' = IF res.ret THEN removedOK \cup {uuid} ELSE removedOK
         /\ users_to_remove' = RemainingAfter(users_to_remove, uuid, res.ret)
  /\ uuid' = NoId
  /\ cfg' = [cfg EXCEPT !["users"] = [inbounds |-> << >>]]
  /\ pc' = [pc EXCEPT !["users"] = "loop"]
  /\ cur' = After("users", "write_config")
  /\ UNCHANGED << loaded, node_id, phase, server_uuids, current_uuids,
                  users_to_add, added_count, addedOK, server_sni, cycles >>
  /\ UNCHANGED reloadLocals

\* both loops are done: sync_users logs and returns, the task sleeps
UsersFinish ==
  /\ Runnable("users") /\ pc["users"] = "loop"
  /\ users_to_add = {} /\ users_to_remove = {}
  /\ server_uuids' = {} /\ current_uuids' = {}
  /\ added_count' = 0 /\ removed_count' = 0
  /\ addedOK' = {} /\ removedOK' = {}
  /\ pc' = [pc EXCEPT !["users"] = "sleep"]
  /\ cur' = "idle"
  /\ UNCHANGED << doc, config_needs_reload, loaded, node_id, phase, cfg, uuid, users_to_add,
                  users_to_remove, server_sni, cycles, faults, rmw, muts, last,
                  trafficVars, loopVars >>
  /\ UNCHANGED reloadLocals

\* sync_sni_loop wakes: sync_sni returns at once without a node id, else it
\* sends the GET of the node data
SniWake ==
  /\ Runnable("sni") /\ pc["sni"] = "sleep" /\ cycles < MaxCycles
  /\ cycles' = cycles + 1
  /\ pc' = [pc EXCEPT !["sni"] = AfterNodeIdTest(node_id, "get")]
  /\ cur' = "idle"
  /\ UNCHANGED << doc, config_needs_reload, loaded, node_id, phase, cfg, server_sni,
                  faults, rmw, muts, last,
                  trafficVars, loopVars >>
  /\ UNCHANGED usersLocals /\ UNCHANGED reloadLocals

\* the GET failed, was not answered 200, or the answer holds no sni
SniRespSkip(failed) ==
  /\ Runnable("sni") /\ pc["sni"] = "get"
  /\ MayFail(failed) /\ Fault(failed)
  /\ pc' = [pc EXCEPT !["sni"] = IF failed THEN OnNon200("sni") ELSE "sleep"]
  /\ cur' = "idle"
  /\ UNCHANGED << doc, config_needs_reload, loaded, node_id, phase, cfg, server_sni,
                  cycles, rmw, muts, last,
                  trafficVars, loopVars >>
  /\ UNCHANGED usersLocals /\ UNCHANGED reloadLocals

\* the GET was answered 200 with an sni: update_sni reads the config
SniResp(sni) ==
  /\ Runnable("sni") /\ pc["sni"] = "get"
  /\ server_sni' = sni
  /\ cfg' = [cfg EXCEPT !["sni"] = read_config(doc)]
  /\ rmw' = [rmw EXCEPT !["sni"] = "fresh"]
  /\ pc' = [pc EXCEPT !["sni"] = "upd_w"]
  /\ cur' = After("sni", "read_config")
  /\ UNCHANGED << doc, config_needs_reload, loaded, node_id, phase, cycles, faults,
                  muts, last,
                  trafficVars, loopVars >>
  /\ UNCHANGED usersLocals /\ UNCHANGED reloadLocals

\* update_sni edits what it read, writes it and returns; the task sleeps
SniWrite(outcome) ==
  /\ Runnable("sni") /\ pc["sni"] = "upd_w"
  /\ LET res == update_sni(doc, config_needs_reload, cfg["sni"], server_sni, INBOUND_TAG, outcome)
     IN  /\ res.wrote \/ outcome = "ok"
         /\ StoreCall("sni", res)
  /\ server_sni' = NoneStr
  /\ cfg' = [cfg EXCEPT !["sni"] = [inbounds |-> << >>]]
  /\ pc' = [pc EXCEPT !["sni"] = "sleep"]
  /\ cur' = "idle"
  /\ UNCHANGED << loaded, node_id, phase, cycles >>
  /\ UNCHANGED usersLocals /\ UNCHANGED reloadLocals

\* reload_xray_loop wakes: a new iteration. With the flag set it calls
\* reload_xray, which spawns the nsenter restart (or fails to spawn it)
ReloadTick(spawnFails) ==
  /\ Runnable("reload") /\ pc["reload"] = "sleep" /\ cycles < MaxCycles
  /\ cycles' = cycles + 1
  /\ muts' = 0
  /\ returncode' = NoneStr
  /\ IF ShouldReload(config_needs_reload)
     THEN /\ retries' = IF spawnFails THEN retries + 1 ELSE retries
          /\ reloadCalls' = IF spawnFails THEN 0 ELSE 1
          /\ spawned' = IF spawnFails THEN 0 ELSE 1
          /\ batched' = IF spawnFails THEN 0 ELSE muts
          /\ pc' = [pc EXCEPT !["reload"] = IF spawnFails THEN "sleep" ELSE "wait1"]
     ELSE /\ ~spawnFails
          /\ UNCHANGED << retries, reloadCalls, spawned, batched, pc >>
  /\ cur' = "idle"
  /\ UNCHANGED << doc, config_needs_reload, loaded, node_id, phase, cfg, server_sni,
                  faults, rmw, okRestarts, last,
                  trafficVars, loopVars >>
  /\ UNCHANGED usersLocals

\* the restart process runs and exits: with status 0 the proxy has been
\* restarted and has loaded the file as it is now
RestartExits(rc) ==
  /\ pc["reload"] \in {"wait1", "wait2"}
  /\ returncode' = rc
  /\ loaded' = IF rc = "0" THEN doc ELSE loaded
  /\ okRestarts' = IF rc = "0" THEN okRestarts + 1 ELSE okRestarts
  /\ pc' = [pc EXCEPT !["reload"] = IF pc["reload"] = "wait1" THEN "exit1" ELSE "exit2"]
  /\ UNCHANGED << doc, config_needs_reload, node_id, phase, cur, cfg, server_sni,
                  cycles, faults, rmw, spawned, reloadCalls, muts, batched, retries, last,
                  trafficVars, loopVars >>
  /\ UNCHANGED usersLocals

\* reload_xray resumes after the nsenter restart: status 0 clears the flag,
\* any other status spawns the direct systemctl (or fails to spawn it)
ReloadResume1(spawnFails) ==
  /\ Runnable("reload") /\ pc["reload"] = "exit1"
  /\ IF NeedsFallback(returncode)
     THEN /\ retries' = IF spawnFails THEN retries + 1 ELSE retries
          /\ spawned' = IF spawnFails THEN 0 ELSE spawned + 1
          /\ reloadCalls' = IF spawnFails THEN 0 ELSE reloadCalls
          /\ batched' = IF spawnFails THEN 0 ELSE batched
          /\ okRestarts' = IF spawnFails THEN 0 ELSE okRestarts
          /\ pc' = [pc EXCEPT !["reload"] = IF spawnFails THEN "sleep" ELSE "wait2"]
          /\ UNCHANGED config_needs_reload
     ELSE /\ ~spawnFails
          /\ config_needs_reload' = FlagAfterRestart(config_needs_reload, returncode)
          /\ retries' = 0
          /\ spawned' = 0 /\ reloadCalls' = 0 /\ batched' = 0 /\ okRestarts' = 0
          /\ pc' = [pc EXCEPT !["reload"] = "sleep"]
  /\ cur' = "idle"
  /\ UNCHANGED << doc, loaded, node_id, phase, cfg, server_sni, cycles, faults, rmw,
                  returncode, muts, last,
                  trafficVars, loopVars >>
  /\ UNCHANGED usersLocals

\* reload_xray resumes after the direct systemctl: status 0 clears the flag,
\* any other status makes it return False
ReloadResume2 ==
  /\ Runnable("reload") /\ pc["reload"] = "exit2"
  /\ config_needs_reload' = FlagAfterRestart(config_needs_reload, returncode)
  /\ retries' = IF returncode = "0" THEN 0 ELSE retries + 1
  /\ spawned' = 0 /\ reloadCalls' = 0 /\ batched' = 0 /\ okRestarts' = 0
  /\ pc' = [pc EXCEPT !["reload"] = "sleep"]
  /\ cur' = "idle"
  /\ UNCHANGED << doc, loaded, node_id, phase, cfg, server_sni, cycles, faults, rmw,
                  returncode, muts, last,
                  trafficVars, loopVars >>
  /\ UNCHANGED usersLocals

Next ==
  \/ \E o \in WriteOutcomes : StartValidate(o)
  \/ \E ok \in BOOLEAN : StartRegister(ok)
  \/ UsersWake
  \/ UsersRespFail
  \/ \E D \in SUBSET UUIDs : UsersResp(D)
  \/ \E u \in UUIDs : UsersAddRead(u)
  \/ \E o \in WriteOutcomes : UsersAddWrite(o)
  \/ \E u \in UUIDs : UsersRemoveRead(u)
  \/ \E o \in WriteOutcomes : UsersRemoveWrite(o)
  \/ UsersFinish
  \/ SniWake
  \/ \E f \in BOOLEAN : SniRespSkip(f)
  \/ \E sni \in SNIs : SniResp(sni)
  \/ \E o \in WriteOutcomes : SniWrite(o)
  \/ \E f \in BOOLEAN : ReloadTick(f)
  \/ \E rc \in {"0", "1"} : RestartExits(rc)
  \/ \E f \in BOOLEAN : ReloadResume1(f)
  \/ ReloadResume2

Spec == InitCommon /\ [][Next]_vars

\* the steps the agent takes by itself. An HTTP request always ends, with
\* an answer or with the error of the session's default timeout; the exit
\* of a restart process (RestartExits) is awaited without any timeout and
\* is not among them
StartStep ==
  \/ \E o \in WriteOutcomes : StartValidate(o)
  \/ \E ok \in BOOLEAN : StartRegister(ok)

UsersStep ==
  \/ UsersWake
  \/ UsersRespFail
  \/ \E D \in SUBSET UUIDs : UsersResp(D)
  \/ \E u \in UUIDs : UsersAddRead(u)
  \/ \E o \in WriteOutcomes : UsersAddWrite(o)
  \/ \E u \in UUIDs : UsersRemoveRead(u)
  \/ \E o \in WriteOutcomes : UsersRemoveWrite(o)
  \/ UsersFinish

SniStep ==
  \/ SniWake
  \/ \E f \in BOOLEAN : SniRespSkip(f)
  \/ \E sni \in SNIs : SniResp(sni)
  \/ \E o \in WriteOutcomes : SniWrite(o)

ReloadStep ==
  \/ \E f \in BOOLEAN : ReloadTick(f)
  \/ \E f \in BOOLEAN : ReloadResume1(f)
  \/ ReloadResume2

\* the agent under the scheduling of the event loop: a task that can run is
\* run in the end
FairSpec ==
  /\ Spec
  /\ WF_vars(StartStep) /\ WF_vars(UsersStep) /\ WF_vars(SniStep) /\ WF_vars(ReloadStep)

\* the two tasks that write the file, once NodeAgent.start has registered
\* the node and created them, under the same scheduling; the reload task
\* writes the flag only and is left out
SyncNext == UsersStep \/ SniStep

SyncInit ==
  /\ doc \in InitDocs
  /\ loaded = doc
  /\ node_id \in NodeIds
  /\ phase = "running"
  /\ pc = [t \in Tasks |-> "sleep"]
  /\ InitLocals

SyncSpec ==
  /\ SyncInit /\ [][SyncNext]_vars
  /\ WF_vars(UsersStep) /\ WF_vars(SniStep)

(* ------------- the write and the flag of a mutating call -------------- *)
\* add_user and remove_user in two steps: `if await self.write_config(config)`
\* and, after a True result, `self.config_needs_reload = True`
flagFrame == << loaded, node_id, phase, server_uuids, current_uuids, server_sni,
                cycles, last, trafficVars, loopVars, reloadLocals >>

\* write_config has returned to the call of task t
Written(t, res) ==
  /\ MayFail(res.wrote /\ ~res.ret) /\ Fault(res.wrote /\ ~res.ret)
  /\ doc' = res.doc
  /\ muts' = IF res.doc # doc THEN Bump(muts) ELSE muts
  /\ rmw' = [x \in Tasks |->
               IF x = t THEN "none"
               ELSE IF res.wrote /\ rmw[x] = "fresh" THEN "stale" ELSE rmw[x]]
  /\ cur' = After(t, "write_config")

\* add_user up to the result of write_config: with True the assignment of
\* the flag is next, otherwise add_user returns
AddUserWrites(outcome) ==
  /\ Runnable("users") /\ pc["users"] = "add_w"
  /\ LET res == add_user(doc, config_needs_reload, cfg["users"], INBOUND_TAG, uuid, outcome)
     IN  /\ res.wrote \/ outcome = "ok"
         /\ Written("users", res)
         /\ IF res.wrote /\ res.ret
            THEN /\ pc' = [pc EXCEPT !["users"] = "add_f"]
                 /\ UNCHANGED << users_to_add, added_count, addedOK, uuid, cfg >>
            ELSE /\ pc' = [pc EXCEPT !["users"] = "loop"]
                 /\ added_count' = IF res.ret THEN added_count + 1 ELSE added_count
                 /\ addedOK' = IF res.ret THEN addedOK \cup {uuid} ELSE addedOK
                 /\ users_to_add' = RemainingAfter(users_to_add, uuid, res.ret)
                 /\ uuid' = NoId
                 /\ cfg' = [cfg EXCEPT !["users"] = [inbounds |-> << >>]]
  /\ UNCHANGED << config_needs_reload, users_to_remove, removed_count, removedOK >>
  /\ UNCHANGED flagFrame

\* self.config_needs_reload = True; add_user returns True
AddUserSetsFlag ==
  /\ Runnable("users") /\ pc["users"] = "add_f"
  /\ config_needs_reload' = TRUE
  /\ added_count' = added_count + 1
  /\ addedOK' = addedOK \cup {uuid}
  /\ users_to_add' = RemainingAfter(users_to_add, uuid, TRUE)
  /\ uuid' = NoId
  /\ cfg' = [cfg EXCEPT !["users"] = [inbounds |-> << >>]]
  /\ pc' = [pc EXCEPT !["users"] = "loop"]
  /\ cur' = After("users", "write_config")
  /\ UNCHANGED << doc, faults, rmw, muts, users_to_remove, removed_count, removedOK >>
  /\ UNCHANGED flagFrame

\* remove_user up to the result of write_config
RemoveUserWrites(outcome) ==
  /\ Runnable("users") /\ pc["users"] = "rem_w"
  /\ LET res == remove_user(doc, config_needs_reload, cfg["users"], INBOUND_TAG, uuid, outcome)
     IN  /\ res.wrote \/ outcome = "ok"
         /\ Written("users", res)
         /\ IF res.wrote /\ res.ret
            THEN /\ pc' = [pc EXCEPT !["users"] = "rem_f"]
                 /\ UNCHANGED << users_to_remove, removed_count, removedOK, uuid, cfg >>
            ELSE /\ pc' = [pc EXCEPT !["users"] = "loop"]
                 /\ removed_count' = IF res.ret THEN removed_count + 1 ELSE removed_count
                 /\ removedOK' = IF res.ret THEN removedOK \cup {uuid} ELSE removedOK
                 /\ users_to_remove' = RemainingAfter(users_to_remove, uuid, res.ret)
                 /\ uuid' = NoId
                 /\ cfg' = [cfg EXCEPT !["users"] = [inbounds |-> << >>]]
  /\ UNCHANGED << config_needs_reload, users_to_add, added_count, addedOK >>
  /\ UNCHANGED flagFrame

\* self.config_needs_reload = True; remove_user returns True
RemoveUserSetsFlag ==
  /\ Runnable("users") /\ pc["users"] = "rem_f"
  /\ config_needs_reload' = TRUE
  /\ removed_count' = removed_count + 1
  /\ removedOK' = removedOK \cup {uuid}
  /\ users_to_remove' = RemainingAfter(users_to_remove, uuid, TRUE)
  /\ uuid' = NoId
  /\ cfg' = [cfg EXCEPT !["users"] = [inbounds |-> << >>]]
  /\ pc' = [pc EXCEPT !["users"] = "loop"]
  /\ cur' = After("users", "write_config")
  /\ UNCHANGED << doc, faults, rmw, muts, users_to_add, added_count, addedOK >>
  /\ UNCHANGED flagFrame

\* the user sync with its two-step calls, beside the reload task and the
\* restart process
FlagNext ==
  \/ UsersWake
  \/ UsersRespFail
  \/ \E D \in SUBSET UUIDs : UsersResp(D)
  \/ \E u \in UUIDs : UsersAddRead(u)
  \/ \E o \in WriteOutcomes : AddUserWrites(o)
  \/ AddUserSetsFlag
  \/ \E u \in UUIDs : UsersRemoveRead(u)
  \/ \E o \in WriteOutcomes : RemoveUserWrites(o)
  \/ RemoveUserSetsFlag
  \/ UsersFinish
  \/ ReloadStep
  \/ \E rc \in {"0", "1"} : RestartExits(rc)

FlagSpec == SyncInit /\ [][FlagNext]_vars

(* -------------------------- sync_traffic ------------------------------ *)
\* raw records one statsquery returns, and sync_traffic cycles explored
MaxRecords == 2
MaxTrafficCycles == 2

TrafficIds == {"A", "B"}
Values == {50, 100}

\* stat names, each as name.split('>>>') splits it: both directions of
\* one identity and the uplink of every other; an inbound counter whose
\* tag ends in "user"; a name of three parts; a fourth part that is no
\* direction; a third part that is not "traffic"
StatNames ==
  { << "user", u, "traffic", "uplink" >> : u \in TrafficIds }
  \cup { << "user", "A", "traffic", "downlink" >>,
         << "inbound", "superuser", "traffic", "uplink" >>,
         << "user", "A", "online" >>,
         << "user", "B", "traffic", "total" >>,
         << "user", "A", "stats", "uplink" >> }

\* a record as query_stats returns it
Records == [name : StatNames, value : Values]

RECURSIVE RecordLists(_)
\* the lists of at most n records with pairwise different names
RecordLists(n) ==
  IF n = 0 THEN { << >> }
  ELSE LET S == RecordLists(n - 1)
       IN  S \cup { Append(p[1], p[2]) :
                      p \in { q \in S \X Records :
                                /\ Len(q[1]) = n - 1
                                /\ \A i \in 1..Len(q[1]) : q[1][i].name # q[2].name } }

\* what one statsquery may return
QueryResults == RecordLists(MaxRecords)

\* faulty variant: the parse goes on from the map sent last
KeepUserTraffic(sent) == sent

\* user_traffic = {} at the start of the parse, whatever was sent before
NewUserTraffic(sent) == << >>

\* one iteration of the parse loop of sync_traffic
ParseStat(map, stat) ==
  LET parts == stat.name
  IN  IF Len(parts) # 4 \/ parts[1] # "user" THEN map
      ELSE LET user_uuid == parts[2]
               direction == parts[4]
               m1 == IF user_uuid \in DOMAIN map THEN map
                     ELSE map @@ (user_uuid :> [upload |-> 0, download |-> 0])
           IN  IF direction = "uplink"
               THEN [m1 EXCEPT ![user_uuid].upload = stat.value]
               ELSE IF direction = "downlink"
                    THEN [m1 EXCEPT ![user_uuid].download = stat.value]
                    ELSE m1

RECURSIVE Aggregate(_, _)
\* the parse loop over a whole list, from the map it is given
Aggregate(records, map) ==
  IF records = << >> THEN map
  ELSE Aggregate(Tail(records), ParseStat(map, Head(records)))

trafficFrame == << doc, config_needs_reload, loaded, node_id, phase, cur, cfg,
                   server_sni, faults, rmw, muts, last, usersLocals, reloadLocals,
                   loopVars >>

\* sync_traffic_loop wakes: without a node id sync_traffic returns at once
TrafficWake ==
  /\ pc["traffic"] = "sleep" /\ cycles < MaxTrafficCycles
  /\ cycles' = cycles + 1
  /\ pc' = [pc EXCEPT !["traffic"] = AfterNodeIdTest(node_id, "query")]
  /\ UNCHANGED trafficVars /\ UNCHANGED trafficFrame

\* query_stats returns: no record ends the cycle, else the parse starts
\* from a new map
TrafficQuery ==
  /\ pc["traffic"] = "query"
  /\ \E records \in QueryResults :
       /\ queried' = records
       /\ stats' = records
       /\ IF records = << >>
          THEN /\ pc' = [pc EXCEPT !["traffic"] = "sleep"]
               /\ UNCHANGED user_traffic
          ELSE /\ pc' = [pc EXCEPT !["traffic"] = "parse"]
               /\ user_traffic' = NewUserTraffic(payload)
  /\ UNCHANGED << payload, status, cycles >> /\ UNCHANGED trafficFrame

\* the parse loop takes the next record
TrafficParse ==
  /\ pc["traffic"] = "parse" /\ stats # << >>
  /\ user_traffic' = ParseStat(user_traffic, Head(stats))
  /\ stats' = Tail(stats)
  /\ UNCHANGED << queried, payload, status, pc, cycles >> /\ UNCHANGED trafficFrame

\* the parse is over: a map with entries is posted; with an empty one
\* sync_traffic returns and its locals are gone
TrafficPost ==
  /\ pc["traffic"] = "parse" /\ stats = << >>
  /\ IF DOMAIN user_traffic # {}
     THEN /\ pc' = [pc EXCEPT !["traffic"] = "post"]
          /\ UNCHANGED << queried, user_traffic >>
     ELSE /\ pc' = [pc EXCEPT !["traffic"] = "sleep"]
          /\ queried' = << >> /\ user_traffic' = << >>
  /\ UNCHANGED << stats, payload, status, cycles >> /\ UNCHANGED trafficFrame

\* answers to the POST: accepted, refused, or the request raised
PostStatuses == {"200", "500", "error"}

\* the POST is over: whatever its answer, sync_traffic logs it, returns and
\* its locals are gone
TrafficPosted ==
  /\ pc["traffic"] = "post"
  /\ payload' = user_traffic
  /\ status' \in PostStatuses
  /\ queried' = << >> /\ user_traffic' = << >>
  /\ pc' = [pc EXCEPT !["traffic"] = "sleep"]
  /\ UNCHANGED << stats, cycles >> /\ UNCHANGED trafficFrame

TrafficNext ==
  \/ TrafficWake
  \/ TrafficQuery
  \/ TrafficParse
  \/ TrafficPost
  \/ TrafficPosted

\* the agent has started; only the traffic task is looked at
TrafficInit ==
  /\ doc = File(<< ApiInbound >>)
  /\ loaded = doc
  /\ node_id \in NodeIds \cup {NoneStr}
  /\ phase = "running"
  /\ pc = [t \in LoopTasks |-> "sleep"]
  /\ InitLocals

TrafficSpec == TrafficInit /\ [][TrafficNext]_vars

(* ----------------------- the periodic task loops ---------------------- *)
\* errors a cycle may raise into its loop; each derives from Exception
ErrorKinds == {"aiohttp.ClientError", "asyncio.TimeoutError", "TypeError",
               "psutil.AccessDenied"}

\* faulty variant: a handler for network errors only
CaughtClientErrorOnly(err) == err = "aiohttp.ClientError"

\* except Exception as e: the handler of every loop takes each of them
Caught(err) == err \in ErrorKinds

\* faulty variant: a loop that ends after it has logged the error
StopsAfterError(t) == "dead"

\* the handler logs and awaits asyncio.sleep(interval) inside while True
AfterError(t) == "backoff"

loopFrame == << doc, config_needs_reload, loaded, node_id, cur, cfg, server_sni,
                faults, rmw, muts, last, usersLocals, reloadLocals, trafficVars >>

\* the sleep of task t is over (the one after its cycle, or the one in its
\* handler): while True starts the next cycle
LoopWake(t) ==
  /\ phase = "running" /\ pc[t] \in {"sleep", "backoff"} /\ cycles < MaxCycles
  /\ cycles' = cycles + 1
  /\ pc' = [pc EXCEPT ![t] = "cycle"]
  /\ UNCHANGED << phase, raised, completed >> /\ UNCHANGED loopFrame

\* the cycle of task t returns, having done its work or having logged a
\* failure it caught itself; the loop sleeps its interval
LoopReturns(t) ==
  /\ phase = "running" /\ pc[t] = "cycle"
  /\ completed' = [completed EXCEPT ![t] = @ + 1]
  /\ pc' = [pc EXCEPT ![t] = "sleep"]
  /\ UNCHANGED << phase, raised, cycles >> /\ UNCHANGED loopFrame

\* the cycle of task t raises err: the handler of the loop takes it; an
\* error no handler takes ends the task, asyncio.gather passes it on to
\* NodeAgent.start, which closes the session and returns
LoopRaises(t, err) ==
  /\ phase = "running" /\ pc[t] = "cycle"
  /\ raised' = [raised EXCEPT ![t] = @ + 1]
  /\ IF Caught(err)
     THEN /\ pc' = [pc EXCEPT ![t] = AfterError(t)]
          /\ phase' = IF pc'[t] = "dead" THEN "stopped" ELSE phase
     ELSE /\ pc' = [pc EXCEPT ![t] = "dead"]
          /\ phase' = "stopped"
  /\ UNCHANGED << completed, cycles >> /\ UNCHANGED loopFrame

LoopNext ==
  \/ \E t \in LoopTasks : LoopWake(t)
  \/ \E t \in LoopTasks : LoopReturns(t)
  \/ \E t \in LoopTasks, err \in ErrorKinds : LoopRaises(t, err)

\* NodeAgent.start has created the five tasks
LoopInit ==
  /\ doc = File(<< ApiInbound >>)
  /\ loaded = doc
  /\ node_id \in NodeIds
  /\ phase = "running"
  /\ pc = [t \in LoopTasks |-> "sleep"]
  /\ InitLocals

LoopSpec == LoopInit /\ [][LoopNext]_vars

(* ------------------------------ claims -------------------------------- *)
\* sync_users has made every add_user and remove_user call of its pass and
\* has not returned yet
PassDone == pc["users"] = "loop" /\ users_to_add = {} /\ users_to_remove = {}

\* C1: whenever config_needs_reload is false, the document the live proxy
\* loaded last equals the persisted document.
C1_CleanMeansLoaded == (config_needs_reload = FALSE) => (loaded = doc)

\* C2: no task writes the document between another task's read_config and
\* that task's write_config: no read a write will be computed from is ever
\* stale, and at most one task is between its read and its write.
C2_NoOverlappingReadModifyWrite ==
  /\ \A t \in Tasks : rmw[t] # "stale"
  /\ Cardinality({t \in Tasks : rmw[t] = "fresh"}) <= 1

\* the user sync is between add_user's read and its write while a cycle of
\* the SNI sync is in flight
C2_Witness == pc["users"] = "add_w" /\ rmw["users"] = "fresh" /\ pc["sni"] = "get"

C4_PassResult ==
  PassDone =>
    /\ Observed(doc) = (current_uuids \cup addedOK) \ removedOK
    /\ (addedOK = server_uuids \ current_uuids /\ removedOK = current_uuids \ server_uuids
          => Observed(doc) = server_uuids)

\* C5 as stated: a pass whose desired set is empty leaves the target inbound
\* without any identity.
C5_EmptyDesiredEmptiesInbound ==
  (PassDone /\ server_uuids = {}) => Observed(doc) = {}

\* C5 as amended: a pass whose desired set is empty adds nothing, leaves in
\* the target inbound no identity whose remove_user call returned True, and
\* leaves it empty when every call returned True.
C5_EmptyDesiredRemovesSucceeded ==
  /\ (pc["users"] \in {"loop", "rem_w"} /\ server_uuids = {}) =>
       /\ users_to_add = {} /\ addedOK = {}
       /\ Observed(doc) \subseteq current_uuids \ removedOK
  /\ (PassDone /\ server_uuids = {} /\ removedOK = current_uuids) => Observed(doc) = {}

\* a full revocation of every identity has gone through
C5_Witness ==
  PassDone /\ server_uuids = {} /\ current_uuids = UUIDs /\ removedOK = UUIDs

\* C6: an add_user call that follows a successful add_user call with the
\* same tag and identity returns True, writes nothing, leaves the file and
\* the flag as they are and the identity set as the first call left it.
C6_AddUserIdempotent ==
  [][ (/\ last.op = "add_user" /\ last.ret
       /\ last'.op = "add_user" /\ last'.tag = last.tag /\ last'.arg = last.arg)
      => (/\ last'.ret /\ ~last'.wrote
          /\ doc' = doc
          /\ config_needs_reload' = config_needs_reload
          /\ last'.idsAfter = last.idsAfter) ]_vars

\* a second add_user of an identity already there has returned True with
\* the flag clear
C6_Witness ==
  /\ last.op = "add_user" /\ last.argPresent /\ last.ret /\ ~last.wrote
  /\ ~config_needs_reload /\ last.arg \in Observed(doc) /\ loaded = doc

\* C7: with the target tag present, remove_user of an identity the inbound
\* does not hold returns True, writes nothing and leaves the flag; it
\* returns False only when the tag is absent.
C7_RemoveAbsentIsNoop ==
  (last.op = "remove_user" /\ last.tagPresent /\ ~last.argPresent)
    => (last.ret /\ ~last.wrote /\ last.flagAfter = last.flagBefore)

\* C8: a store call that returned success and changed the file leaves
\* config_needs_reload true.
C8_ChangeSetsFlag ==
  (/\ last.op \in {"add_user", "remove_user", "update_sni", "validate_and_fix_config"}
   /\ last.ret /\ last.changed)
    => last.flagAfter

\* C9: config_needs_reload goes from true to false only in the step in which
\* reload_xray resumes after a restart process that exited with status 0.
C9_OnlySuccessfulRestartClears ==
  [][ (config_needs_reload /\ ~config_needs_reload')
      => (/\ pc["reload"] \in {"exit1", "exit2"}
          /\ returncode = "0"
          /\ pc'["reload"] = "sleep") ]_vars

\* reload_xray has returned after a restart that exited 0 and the flag is clear
C9_Witness ==
  pc["reload"] = "sleep" /\ returncode = "0" /\ ~config_needs_reload /\ loaded = doc

\* C10: after a reload_xray call that returned False the flag is still set,
\* the reload task is back in its sleep, and its next wake-up invokes the
\* restart again, whatever the number of failures so far.
C10_FailedRestartIsRetried ==
  /\ [](retries > 0 => config_needs_reload)
  /\ [][ retries' > retries => (config_needs_reload' /\ pc'["reload"] = "sleep") ]_vars
  /\ [][ (retries > 0 /\ pc["reload"] = "sleep" /\ pc'["reload"] # "sleep")
         => pc'["reload"] = "wait1" ]_vars
  /\ [][ (retries > 0 /\ \E f \in BOOLEAN : ReloadTick(f))
         => (pc'["reload"] = "wait1" \/ retries' = retries + 1) ]_vars

\* the restart has been invoked again after a failed reload_xray call
C10_Witness == retries >= 1 /\ pc["reload"] = "wait1" /\ config_needs_reload

\* the clients of the target inbound as the file holds them
TargetClients(d) ==
  LET inbounds == read_config(d).inbounds
      i == FindInbound(inbounds, INBOUND_TAG)
  IN  IF i = 0 THEN << >> ELSE ClientsOf(inbounds[i])

\* C11: update_sni called with the server name the target inbound already
\* stores returns True, does not call write_config and leaves the flag as
\* it was.
C11_UpdateSniSameValueIsNoop ==
  (last.op = "update_sni" /\ last.tagPresent /\ last.argPresent)
    => (last.ret /\ ~last.wrote /\ ~last.changed /\ last.flagAfter = last.flagBefore)

\* update_sni has been called with the stored server name while a reload
\* was owed
C11_Witness ==
  /\ last.op = "update_sni" /\ last.tagPresent /\ last.argPresent
  /\ last.flagBefore /\ config_needs_reload /\ last.ret

\* C12: add_user and remove_user called with a tag no inbound carries return
\* False, do not write, leave the file unchanged and leave the flag as it was.
C12_AbsentTagFails ==
  (last.op \in {"add_user", "remove_user"} /\ ~last.tagPresent)
    => (~last.ret /\ ~last.wrote /\ ~last.changed /\ last.flagAfter = last.flagBefore)

\* add_user has been called with a tag no inbound of a readable, non-empty
\* document carries
C12_Witness ==
  /\ last.op = "add_user" /\ ~last.tagPresent /\ ~last.ret
  /\ doc.readable /\ Len(doc.inbounds) > 0

\* C13: no two clients of the target inbound share an id.
C13_UniqueIdentities ==
  LET c == TargetClients(doc)
  IN  \A i, j \in 1..Len(c) : i # j => c[i].id # c[j].id

\* add_user has been called for an identity the full inbound already held
C13_Witness ==
  /\ last.op = "add_user" /\ last.tag = INBOUND_TAG /\ last.argPresent
  /\ Observed(doc) = UUIDs /\ Len(TargetClients(doc)) = MaxUsers

\* the structure user>>>IDENTITY>>>traffic>>>(uplink|downlink)
Matches(name) ==
  /\ Len(name) = 4
  /\ name[1] = "user" /\ name[3] = "traffic"
  /\ name[4] \in {"uplink", "downlink"}

\* the parse loop of this cycle has taken every record
ParseDone == pc["traffic"] = "post" \/ (pc["traffic"] = "parse" /\ stats = << >>)

\* the value of the record of identity u and direction d, 0 without one
RecordValue(u, d) ==
  LET S == { i \in 1..Len(queried) : queried[i].name = << "user", u, "traffic", d >> }
  IN  IF S = {} THEN 0 ELSE queried[CHOOSE i \in S : TRUE].value

\* C14: a parse step on a record whose name does not have the structure
\* user>>>IDENTITY>>>traffic>>>(uplink|downlink) leaves the map as it is: no
\* new entry, no changed value.
C14_SkipsNonMatching ==
  [][ (pc["traffic"] = "parse" /\ stats # << >> /\ ~Matches(Head(stats).name))
      => user_traffic' = user_traffic ]_vars

\* C15: when the parse is over the map holds exactly the identities that
\* have a matching record, each with its uplink value as upload and its
\* downlink value as download, 0 for a direction without a record.
C15_OneEntryPerIdentity ==
  ParseDone =>
    /\ DOMAIN user_traffic =
         { queried[i].name[2] : i \in { j \in 1..Len(queried) : Matches(queried[j].name) } }
    /\ \A u \in DOMAIN user_traffic :
         /\ user_traffic[u].upload = RecordValue(u, "uplink")
         /\ user_traffic[u].download = RecordValue(u, "downlink")

\* C16: when the parse is over the map is what the parse loop makes of this
\* cycle's records starting from an empty map, whatever earlier cycles saw
\* and sent.
C16_NoStateAcrossCycles ==
  ParseDone => user_traffic = Aggregate(queried, << >>)

\* a second cycle posts 50 for an identity the cycle before posted 100 for
C16_Witness ==
  /\ pc["traffic"] = "post" /\ cycles = 2
  /\ "A" \in DOMAIN payload /\ "A" \in DOMAIN user_traffic
  /\ payload["A"].upload = 100 /\ user_traffic["A"].upload = 50
  /\ user_traffic["A"].download = 0 /\ payload["A"].download = 50

C18_LoopsRunForever ==
  /\ [][ \A t \in LoopTasks :
           /\ (pc[t] = "cycle" /\ raised'[t] > raised[t]) => pc'[t] = "backoff"
           /\ (pc[t] = "backoff" /\ pc'[t] # "backoff") => pc'[t] = "cycle" ]_vars
  /\ [](/\ phase = "running"
        /\ \A t \in LoopTasks :
             /\ pc[t] \in {"sleep", "cycle", "backoff"}
             /\ (pc[t] = "backoff" /\ cycles < MaxCycles => ENABLED LoopWake(t)))

\* the traffic sync runs its next cycle after a cycle that raised
C18_Witness ==
  /\ raised["traffic"] = 1 /\ completed["traffic"] = 0 /\ pc["traffic"] = "cycle"

\* what a write may change in the inbound it owns: the client list with the
\* keys that hold it (add_user, remove_user, validate_and_fix_config), or
\* the server names (update_sni)
OwnedKept(op, before, after) ==
  IF op = "update_sni"
  THEN [after EXCEPT !.serverNames = before.serverNames] = before
  ELSE [after EXCEPT !.clients = before.clients, !.hasSettings = before.hasSettings,
                     !.hasClients = before.hasClients] = before

\* the file after a write still is a document with the same inbounds, each
\* as it was but for the owned fields of the one carrying `tag`
FrameKept(op, tag, d, e) ==
  /\ e.readable
  /\ Len(e.inbounds) = Len(d.inbounds)
  /\ \A k \in 1..Len(d.inbounds) :
       IF k = FindInbound(d.inbounds, tag)
       THEN OwnedKept(op, d.inbounds[k], e.inbounds[k])
       ELSE e.inbounds[k] = d.inbounds[k]

\* C19: a call of add_user, remove_user, update_sni or
\* validate_and_fix_config that wrote the file leaves every inbound other
\* than the target one as it was, and in the target inbound every field but
\* the client list (the server names for update_sni).
C19_WritesKeepOtherFields ==
  [][ (/\ last'.op \in {"add_user", "remove_user", "update_sni", "validate_and_fix_config"}
       /\ last'.wrote)
      => FrameKept(last'.op, last'.tag, doc, doc') ]_vars

\* C20: a cycle of sync_users or sync_sni whose GET is not answered 200
\* leaves the file and the flag as they are and ends: the task is back in
\* its sleep, and a GET is sent only by the wake-up of a scheduled cycle.
C20_Non200SkipsCycle ==
  [][ \A t \in {"users", "sni"} :
        /\ (pc[t] = "get" /\ pc'[t] # "get" /\ faults' > faults)
             => /\ doc' = doc /\ config_needs_reload' = config_needs_reload
                /\ muts' = muts /\ rmw' = rmw
                /\ pc'[t] = "sleep"
        /\ (pc[t] # "get" /\ pc'[t] = "get")
             => /\ pc[t] = "sleep" /\ cycles' = cycles + 1
                /\ doc' = doc /\ config_needs_reload' = config_needs_reload ]_vars

\* the only cycle run so far was a fetch that was not answered 200 (the
\* file holds no target inbound, so no call has tried to write): nothing
\* has changed and every task sleeps
C20_Witness ==
  /\ phase = "running" /\ node_id # NoneStr
  /\ cycles = 1 /\ faults = 1 /\ muts = 0
  /\ \A t \in Tasks : pc[t] = "sleep"
  /\ doc = File(<< ApiInbound >>)
  /\ loaded = doc /\ ~config_needs_reload

\* C21: while the file holds no inbound with the target tag, no step of a
\* sync_users cycle changes the file or the flag and no add_user or
\* remove_user call of the pass succeeds; the task goes back to its sleep,
\* its next wake-up is possible, and the cycle that follows computes the
\* whole desired set as identities to add again.
C21_AbsentTagFailsCycle ==
  /\ [][ (~TagPresent(doc, INBOUND_TAG) /\ pc'["users"] # pc["users"])
           => /\ doc' = doc /\ config_needs_reload' = config_needs_reload
              /\ addedOK' \subseteq addedOK /\ removedOK' \subseteq removedOK
              /\ added_count' <= added_count /\ removed_count' <= removed_count
              /\ (pc'["users"] = "loop" /\ pc["users"] = "get"
                    => users_to_add' = server_uuids' /\ users_to_remove' = {}) ]_vars
  /\ [](~TagPresent(doc, INBOUND_TAG) /\ pc["users"] = "sleep" /\ cur = "idle"
          /\ phase = "running" /\ cycles < MaxCycles
        => ENABLED UsersWake)

\* a pass for both identities is over with the tag absent: every add_user
\* call has failed and nothing was written, in a cycle that is not the first
C21_Witness ==
  /\ PassDone /\ server_uuids = UUIDs /\ current_uuids = {} /\ addedOK = {}
  /\ doc = File(<< ApiInbound >>) /\ ~config_needs_reload /\ faults = 0
  /\ cycles >= 2

\* C22: once sync_traffic has returned, the traffic it read from the stats
\* source and sent last has been accepted by the main server.
C22_AtLeastOnceDelivery ==
  (pc["traffic"] = "sleep" /\ payload # << >>) => status = "200"

\* C23: for a file that cannot be read or parsed read_config does not hand
\* its caller a document: what it returns differs from what it returns for
\* the readable file that holds no inbound.
C23_ReadReportsFailure ==
  ~doc.readable => read_config(doc) # read_config(File(<< >>))

\* C24: a task that waits for an external party gets control back: the
\* reload task does not wait for its restart process for ever, and a GET
\* of the user sync or of the SNI sync ends.
C24_WaitsAreBounded ==
  /\ (pc["reload"] \in {"wait1", "wait2"}) ~> (pc["reload"] \notin {"wait1", "wait2"})
  /\ (pc["users"] = "get") ~> (pc["users"] # "get")
  /\ (pc["sni"] = "get") ~> (pc["sni"] # "get")

\* C25: within a pass an identity leaves users_to_add or users_to_remove
\* only in the step in which its own add_user or remove_user call returns,
\* whatever the other calls returned, and sync_users returns only when both
\* are empty: the call is made for every identity of the pass.
C25_EachIdentityProcessed ==
  [][ /\ \A u \in UUIDs :
           /\ (u \in users_to_add /\ u \notin users_to_add')
                => (pc["users"] = "add_w" /\ uuid = u)
           /\ (u \in users_to_remove /\ u \notin users_to_remove')
                => (pc["users"] = "rem_w" /\ uuid = u)
      /\ (pc["users"] = "loop" /\ pc'["users"] = "sleep")
           => (users_to_add = {} /\ users_to_remove = {}) ]_vars

\* the add_user call of the second identity is under way after the call of
\* the first one has failed on its write
C25_Witness ==
  /\ pc["users"] = "add_w" /\ server_uuids = UUIDs /\ current_uuids = {}
  /\ users_to_add = {uuid} /\ addedOK = {} /\ faults >= 1
  /\ TagPresent(doc, INBOUND_TAG)

\* a pass is under way in which no call has failed so far: what is left to
\* add and to remove is the difference between the desired set and the file
OnTrack ==
  /\ pc["users"] = "loop"
  /\ users_to_add = server_uuids \ Observed(doc)
  /\ users_to_remove = Observed(doc) \ server_uuids

\* C26: every cycle computes what to add and to remove from the desired set
\* it was given and the identities the file holds then; between cycles
\* nothing is kept; and once no store operation fails any more, a pass on a
\* file that holds the target inbound ends with the observed set equal to
\* the desired set.
C26_Converges ==
  /\ [][ (pc["users"] = "get" /\ pc'["users"] = "loop")
           => /\ users_to_add' = server_uuids' \ Observed(doc)
              /\ users_to_remove' = Observed(doc) \ server_uuids' ]_vars
  /\ [](pc["users"] \in {"sleep", "get"} => users_to_add = {} /\ users_to_remove = {})
  /\ (OnTrack /\ faults = MaxFaults /\ TagPresent(doc, INBOUND_TAG))
       ~> (PassDone /\ Observed(doc) = server_uuids)

\* a later cycle has brought the file to the desired set after a store
\* operation had failed
C26_Witness ==
  /\ PassDone /\ Observed(doc) = server_uuids /\ server_uuids = UUIDs
  /\ addedOK # {} /\ addedOK # UUIDs /\ current_uuids # {}
  /\ faults = MaxFaults /\ cycles >= 2

\* C27: a change of the file that set the flag is loaded by the proxy before
\* the reload is no longer owed: in the step that clears the flag the proxy
\* runs the file as it then is.
C27_ChangeIsLoaded ==
  [][ (config_needs_reload /\ ~config_needs_reload') => loaded' = doc' ]_vars

\* the write of a mutating call has succeeded and its assignment of the
\* flag has not been made yet
FlagPending == pc["users"] \in {"add_f", "rem_f"}

\* C28: while a mutating call is between its successful write and its
\* assignment of the flag, the calling task holds the event loop, and no
\* step is a tick of reload_xray_loop or clears the flag.
C28_WriteAndFlagIndivisible ==
  /\ [](FlagPending => cur = "users")
  /\ [][ FlagPending
           => /\ cycles' = cycles
              /\ (config_needs_reload => config_needs_reload')
              /\ (pc["reload"] \in {"sleep", "exit1", "exit2"}
                    => pc'["reload"] = pc["reload"]) ]_vars

\* add_user has written and not yet set the flag while a restart that
\* exited 0 waits for reload_xray to resume and clear the flag
C28_Witness ==
  /\ pc["users"] = "add_f" /\ pc["reload"] = "exit1" /\ returncode = "0"
  /\ config_needs_reload /\ loaded # doc

\* C29: a restart process is spawned only by a step of the reload task,
\* taken with the flag set; the flag stays set while reload_xray waits for
\* a restart process; and no step taken with the flag clear spawns one.
C29_RestartOnlyWhenDirty ==
  /\ [][ (spawned' > spawned \/ (pc'["reload"] \in {"wait1", "wait2"}
                                  /\ pc'["reload"] # pc["reload"]))
           => /\ config_needs_reload
              /\ pc["reload"] \in {"sleep", "exit1"}
              /\ \A t \in Tasks \ {"reload"} : pc'[t] = pc[t] ]_vars
  /\ [](pc["reload"] \in {"wait1", "wait2"} => config_needs_reload)
  /\ [](~config_needs_reload /\ pc["reload"] = "sleep" => spawned = 0)

\* the tick has found the flag set and spawned the restart for one mutation
C29_Witness ==
  /\ pc["reload"] = "wait1" /\ spawned = 1 /\ reloadCalls = 1 /\ batched = 1
  /\ config_needs_reload /\ returncode = NoneStr /\ loaded # doc

\* sync_users logs its summary under `if added_count > 0 or removed_count > 0`
EmitsSummary(added, removed) == added > 0 \/ removed > 0

\* the total of the summary: len(current_uuids) + added_count - removed_count
SummaryTotal(current, added, removed) == Cardinality(current) + added - removed

\* C30: at the end of a pass the summary is emitted exactly when a count is
\* not zero, never for a pass that found the desired set in place, and its
\* total is the number of identities the target inbound then holds.
C30_SummaryTotalIsObserved ==
  PassDone =>
    /\ (server_uuids = current_uuids => ~EmitsSummary(added_count, removed_count))
    /\ (EmitsSummary(added_count, removed_count)
          => SummaryTotal(current_uuids, added_count, removed_count)
               = Cardinality(Observed(doc)))

(* ------------------- the registration at startup ---------------------- *)
\* register_node in two steps: the POST is sent, NodeAgent.start is
\* suspended at it
RegisterSends ==
  /\ phase = "register"
  /\ phase' = "registering"
  /\ UNCHANGED << doc, config_needs_reload, loaded, node_id, pc, cur, cfg, server_sni,
                  cycles, faults, rmw, muts, last,
                  trafficVars, loopVars >>
  /\ UNCHANGED usersLocals /\ UNCHANGED reloadLocals

\* the POST is over: the id of a 200 answer is assigned, else node_id stays
\* unset; register_node returns and NodeAgent.start creates the tasks
RegisterAnswered(ok) ==
  /\ phase = "registering"
  /\ MayFail(~ok) /\ Fault(~ok)
  /\ node_id' \in IF ok THEN NodeIds ELSE {NoneStr}
  /\ phase' = "running"
  /\ UNCHANGED << doc, config_needs_reload, loaded, pc, cur, cfg, server_sni, cycles,
                  rmw, muts, last,
                  trafficVars, loopVars >>
  /\ UNCHANGED usersLocals /\ UNCHANGED reloadLocals

\* an agent started without NODE_ID
StartInit ==
  /\ doc \in InitDocs
  /\ loaded = doc
  /\ node_id = NoneStr
  /\ phase = "validate"
  /\ pc = [t \in Tasks |-> "sleep"]
  /\ InitLocals

StartNext ==
  \/ \E o \in WriteOutcomes : StartValidate(o)
  \/ RegisterSends
  \/ \E ok \in BOOLEAN : RegisterAnswered(ok)
  \/ UsersStep
  \/ SniStep
  \/ ReloadStep
  \/ \E rc \in {"0", "1"} : RestartExits(rc)

StartSpec == StartInit /\ [][StartNext]_vars

\* C31: no periodic task takes a step, and so none sends a request, before
\* the registration attempt of the startup is over; the node id is assigned
\* only by that attempt, while every task is still at its first sleep.
C31_TasksStartAfterRegistration ==
  /\ [](phase # "running" => (cycles = 0 /\ \A t \in Tasks : pc[t] = "sleep"))
  /\ [][ (pc' # pc \/ cycles' # cycles) => phase = "running" ]_vars
  /\ [][ node_id' # node_id
           => (phase = "registering" /\ cycles = 0 /\ \A t \in Tasks : pc[t] = "sleep") ]_vars

\* the registration gave an id and the user sync has sent its first GET
C31_Witness ==
  /\ phase = "running" /\ node_id \in NodeIds
  /\ pc["users"] = "get" /\ cycles = 1

(* ---------------------- the agent without a node id ------------------- *)
\* the agent in two views: its startup with the tasks that write the
\* configuration, or, once started, its traffic task. With no node id the
\* tasks share nothing but the id they test
ConfigView == DOMAIN pc = Tasks
TrafficView == DOMAIN pc = LoopTasks

UnregInit == StartInit \/ TrafficInit

UnregNext ==
  \/ ConfigView /\ \E o \in WriteOutcomes : StartValidate(o)
  \/ ConfigView /\ RegisterSends
  \/ ConfigView /\ \E ok \in BOOLEAN : RegisterAnswered(ok)
  \/ ConfigView /\ UsersWake
  \/ ConfigView /\ UsersRespFail
  \/ ConfigView /\ \E D \in SUBSET UUIDs : UsersResp(D)
  \/ ConfigView /\ \E u \in UUIDs : UsersAddRead(u)
  \/ ConfigView /\ \E o \in WriteOutcomes : UsersAddWrite(o)
  \/ ConfigView /\ \E u \in UUIDs : UsersRemoveRead(u)
  \/ ConfigView /\ \E o \in WriteOutcomes : UsersRemoveWrite(o)
  \/ ConfigView /\ UsersFinish
  \/ ConfigView /\ SniWake
  \/ ConfigView /\ \E f \in BOOLEAN : SniRespSkip(f)
  \/ ConfigView /\ \E sni \in SNIs : SniResp(sni)
  \/ ConfigView /\ \E o \in WriteOutcomes : SniWrite(o)
  \/ ConfigView /\ \E f \in BOOLEAN : ReloadTick(f)
  \/ ConfigView /\ \E rc \in {"0", "1"} : RestartExits(rc)
  \/ ConfigView /\ \E f \in BOOLEAN : ReloadResume1(f)
  \/ ConfigView /\ ReloadResume2
  \/ TrafficView /\ TrafficWake
  \/ TrafficView /\ TrafficQuery
  \/ TrafficView /\ TrafficParse
  \/ TrafficView /\ TrafficPost
  \/ TrafficView /\ TrafficPosted

UnregSpec == UnregInit /\ [][UnregNext]_vars

\* the startup is over and the agent holds no node id
Unregistered == phase = "running" /\ node_id = NoneStr

\* C32: once the agent runs without a node id, the id stays unset, every
\* cycle of the traffic, user and SNI sync ends at its node id test, the
\* file and the flag are left as they are, no statistics are queried and no
\* restart process is started.
C32_UnregisteredSkipsEverything ==
  /\ [](Unregistered =>
          /\ \A t \in DOMAIN pc : pc[t] = "sleep"
          /\ ~config_needs_reload
          /\ queried = << >> /\ stats = << >> /\ payload = << >>
          /\ spawned = 0 /\ reloadCalls = 0)
  /\ [][ Unregistered =>
           /\ node_id' = node_id
           /\ doc' = doc
           /\ config_needs_reload' = config_needs_reload
           /\ queried' = queried /\ stats' = stats ]_vars

\* the only registration attempt failed and two cycles have been skipped
C32_Witness ==
  /\ ConfigView /\ Unregistered
  /\ faults = 1 /\ cycles >= 2

\* what a call of the configuration manager on document d with flag f may
\* return: res is its result for some tag, argument and write outcome
FailsUntouched(d, f, res) ==
  ~res.ret /\ ~res.wrote /\ res.doc = d /\ res.flag = f

\* C33: with a file that cannot be read or parsed, get_inbound_users gives
\* the empty set, add_user, remove_user and update_sni return False without
\* a write and without touching the flag, and so no step of a user or SNI
\* sync changes the file or sets the flag or counts a call as done.
C33_UnreadableFailsEveryCall ==
  /\ [](~doc.readable =>
          LET config == read_config(doc)
              f == config_needs_reload
          IN  \A tag \in Tags, o \in WriteOutcomes :
                /\ get_inbound_users(config, tag) = {}
                /\ \A u \in UUIDs :
                     /\ FailsUntouched(doc, f, add_user(doc, f, config, tag, u, o))
                     /\ FailsUntouched(doc, f, remove_user(doc, f, config, tag, u, o))
                /\ \A sni \in SNIs :
                     FailsUntouched(doc, f, update_sni(doc, f, config, sni, tag, o)))
  /\ [][ ~doc.readable =>
           /\ doc' = doc
           /\ (config_needs_reload' # config_needs_reload
                 => (pc'["reload"] # pc["reload"] /\ ~config_needs_reload'))
           /\ addedOK' \subseteq addedOK /\ removedOK' \subseteq removedOK
           /\ added_count' <= added_count /\ removed_count' <= removed_count
           /\ (pc["users"] = "get" /\ pc'["users"] = "loop" => current_uuids' = {}) ]_vars

\* a pass for two identities has ended on an unreadable file with nothing
\* observed and nothing added: add_user was called against it
C33_Witness ==
  /\ ~doc.readable /\ PassDone
  /\ current_uuids = {} /\ server_uuids = UUIDs /\ addedOK = {}

====
